---------------------------- MODULE Spec2Model ----------------------------
(***************************************************************************)
(* Model of src/aggregate_materials_final.py: a straight-line batch script *)
(* that loads six spreadsheets, fixes three fields, cleans every text      *)
(* column, left-joins the tables five times, fills nulls with "N/A" and    *)
(* writes result.xlsx.                                                     *)
(*                                                                         *)
(* A text is a sequence of one-character strings, so that strip, zfill and *)
(* slicing are computed character by character.  A cell is a tagged        *)
(* record: null (NaN / pd.NA), int, float (a whole number held as float64  *)
(* and printed "7.0") or str.  A DataFrame is [columns, rows]; a row is a  *)
(* function from column name to cell.                                      *)
(***************************************************************************)
EXTENDS Integers, Sequences, FiniteSets, TLC

VARIABLES
    files,      \* the six spreadsheets in the working directory (never written)
    data,       \* the dict of DataFrames built by the loader
    result,     \* the accumulated join result
    pc,         \* position in the script
    cleanIdx,   \* position of the cleaning loop in data.items()
    log,        \* log.txt: the records written by logging.info / logging.error
    xlsx,       \* result.xlsx as written by this run
    exitStatus  \* process exit status once the run has ended, -1 while running

vars == <<files, data, result, pc, cleanIdx, log, xlsx, exitStatus>>

---------------------------------------------------------------------------
\* Cells

NULL == [t |-> "null", n |-> 0, s |-> <<>>]
Num(k) == [t |-> "int", n |-> k, s |-> <<>>]
Flt(k) == [t |-> "float", n |-> k, s |-> <<>>]
Str(x) == [t |-> "str", n |-> 0, s |-> x]

IsNull(c) == c.t = "null"
IsStr(c) == c.t = "str"

\* Texts used by the script
tNan == <<"n", "a", "n">>
tNA == <<"N", "/", "A">>
tACTIVE == <<"A", "C", "T", "I", "V", "E">>
tSpace == <<" ">>
tTCPrefix == <<"T", "C", "0", "0", "0", "0", "0", "0", "0", "0">>

Whitespace == {" ", "\t", "\n", "\r"}

\* str.strip()
RECURSIVE LStrip(_)
LStrip(s) ==
    IF s # <<>> /\ Head(s) \in Whitespace THEN LStrip(Tail(s)) ELSE s

RECURSIVE RStrip(_)
RStrip(s) ==
    IF s # <<>> /\ s[Len(s)] \in Whitespace
    THEN RStrip(SubSeq(s, 1, Len(s) - 1))
    ELSE s

Strip(s) == RStrip(LStrip(s))

\* str(int)
Digit(d) == <<"0", "1", "2", "3", "4", "5", "6", "7", "8", "9">>[d + 1]

RECURSIVE IntStr(_)
IntStr(k) ==
    IF k < 10 THEN <<Digit(k)>> ELSE IntStr(k \div 10) \o <<Digit(k % 10)>>

\* astype(str) of one cell
AsStr(c) ==
    CASE c.t = "null" -> tNan
      [] c.t = "int" -> IntStr(c.n)
      [] c.t = "float" -> IntStr(c.n) \o <<".", "0">>
      [] OTHER -> c.s

\* str.zfill(width)
ZfillWidth == 4

RECURSIVE Zfill(_, _)
Zfill(s, width) ==
    IF Len(s) >= width THEN s ELSE Zfill(<<"0">> \o s, width)

\* s[-2:]
LastTwo(s) == SubSeq(s, IF Len(s) > 2 THEN Len(s) - 1 ELSE 1, Len(s))

---------------------------------------------------------------------------
\* DataFrames

NoFrame == [columns |-> <<>>, rows |-> <<>>]

Range(f) == {f[i] : i \in DOMAIN f}

RECURSIVE Flatten(_)
Flatten(ss) == IF ss = <<>> THEN <<>> ELSE Head(ss) \o Flatten(Tail(ss))

\* df[col].dtype == 'object': the column holds text
IsObject(df, col) == \E i \in DOMAIN df.rows : IsStr(df.rows[i][col])

\* df[col] = cells
SetColumn(df, col, cells) ==
    [df EXCEPT !.rows = [i \in DOMAIN df.rows |->
                            [df.rows[i] EXCEPT ![col] = cells[i]]]]

\* df.drop(columns=[col])
DropColumn(df, col) ==
    LET keep(c) == c # col
        cols == SelectSeq(df.columns, keep)
    IN [columns |-> cols,
        rows |-> [i \in DOMAIN df.rows |-> [c \in Range(cols) |-> df.rows[i][c]]]]

\* df[[c1, ..., cn]]
Project(df, cols) ==
    [columns |-> cols,
     rows |-> [i \in DOMAIN df.rows |-> [c \in Range(cols) |-> df.rows[i][c]]]]

\* the right rows whose key cells equal the left row's (null keys match null keys)
Matches(l, right, on) ==
    LET hit(r) == \A k \in on : r[k] = l[k]
    IN SelectSeq(right.rows, hit)

\* the same merge with how='inner': a left row without a match is dropped
MergeInner(left, right, on) ==
    LET extra(c) == c \notin on
        newCols == SelectSeq(right.columns, extra)
        cols == left.columns \o newCols
        Joined(l, r) == [c \in Range(cols) |->
                            IF c \in Range(left.columns) THEN l[c] ELSE r[c]]
        RowsFor(l) ==
            LET m == Matches(l, right, on)
            IN [j \in DOMAIN m |-> Joined(l, m[j])]
    IN [columns |-> cols,
        rows |-> Flatten([i \in DOMAIN left.rows |-> RowsFor(left.rows[i])])]

\* left.merge(right, on=on, how='left')
Merge(left, right, on) ==
    LET extra(c) == c \notin on
        newCols == SelectSeq(right.columns, extra)
        cols == left.columns \o newCols
        Joined(l, r) == [c \in Range(cols) |->
                            IF c \in Range(left.columns) THEN l[c] ELSE r[c]]
        Unmatched(l) == [c \in Range(cols) |->
                            IF c \in Range(left.columns) THEN l[c] ELSE NULL]
        RowsFor(l) ==
            LET m == Matches(l, right, on)
            IN IF m = <<>> THEN <<Unmatched(l)>>
               ELSE [j \in DOMAIN m |-> Joined(l, m[j])]
    IN [columns |-> cols,
        rows |-> Flatten([i \in DOMAIN left.rows |-> RowsFor(left.rows[i])])]

---------------------------------------------------------------------------
\* The six sources, in the order the loader reads them and data.items()
\* yields them

DataKeys ==
    <<"materials", "plants", "storage", "suppliers", "supplier_names",
      "manufacturer_names">>

\* The thirteen exported columns, in export order
OutputColumns ==
    <<"MaterialReference", "ManufacturerName", "ArticleNumber", "TypeCode",
      "ShortText", "Plant", "Disposition", "ReporderPoint", "SupplierName",
      "SupplierArticleNumber", "StorageLocation", "StorageBin",
      "DeletedStorageLevel">>

\* Cell texts pandas' reader turns into a missing value (its default
\* na_values, as far as the alphabet of the inputs can spell them)
DefaultNaValues == {<<>>, tNan, tNA, <<"N", "A">>, <<"N", "a", "N">>}

\* pd.read_excel(file, sheet_name=...): NA texts become missing, and a
\* column of numbers with a missing cell is held as float64
ReadExcel(sheet) ==
    LET na(c) == IF IsStr(c) /\ c.s \in DefaultNaValues THEN NULL ELSE c
        cells == [i \in DOMAIN sheet.rows |->
                    [c \in DOMAIN sheet.rows[i] |-> na(sheet.rows[i][c])]]
        floatCol(col) == /\ \A i \in DOMAIN cells : ~IsStr(cells[i][col])
                         /\ \E i \in DOMAIN cells : IsNull(cells[i][col])
        cast(col, c) == IF floatCol(col) /\ c.t = "int" THEN Flt(c.n) ELSE c
    IN [columns |-> sheet.columns,
        rows |-> [i \in DOMAIN cells |->
                    [c \in DOMAIN cells[i] |-> cast(c, cells[i][c])]]]

\* log.txt records: level, message, and the count or name the message carries
\* (the text of a caught exception is left out)
Info(msg, n) == [level |-> "INFO", msg |-> msg, n |-> n, key |-> ""]
Error(msg) == [level |-> "ERROR", msg |-> msg, n |-> 0, key |-> ""]

---------------------------------------------------------------------------
\* Field fixes and the cleaner, cell by cell

\* the replacement matching the empty text instead of the single space
ReplaceEmpty(c) == IF c = Str(<<>>) THEN Str(tACTIVE) ELSE c

\* Series.replace(' ', 'ACTIVE'): whole-value match
ReplaceSpace(c) == IF c = Str(tSpace) THEN Str(tACTIVE) ELSE c

\* the backfill taking the first two characters, [:2]
BackfillRowFirstTwo(row) ==
    IF IsNull(row["TypeCode"])
    THEN [row EXCEPT !["TypeCode"] =
              Str(tTCPrefix \o SubSeq(row["MaterialReference"].s, 1,
                                      IF Len(row["MaterialReference"].s) < 2
                                      THEN Len(row["MaterialReference"].s) ELSE 2))]
    ELSE row

\* the backfill also taking a blank TypeCode for a missing one
BackfillRowBlank(row) ==
    IF IsNull(row["TypeCode"]) \/ Strip(AsStr(row["TypeCode"])) \in {<<>>, tNan}
    THEN [row EXCEPT !["TypeCode"] =
              Str(tTCPrefix \o LastTwo(row["MaterialReference"].s))]
    ELSE row

\* df[col].replace(' ', 'ACTIVE', inplace=True)
ReplacedColumn(df, col) ==
    SetColumn(df, col, [i \in DOMAIN df.rows |-> ReplaceSpace(df.rows[i][col])])

\* lambda row: 'TC00000000' + row['MaterialReference'][-2:]
\*             if pd.isna(row['TypeCode']) else row['TypeCode']
BackfillRow(row) ==
    IF IsNull(row["TypeCode"])
    THEN [row EXCEPT !["TypeCode"] =
              Str(tTCPrefix \o LastTwo(row["MaterialReference"].s))]
    ELSE row

\* .astype(str).str.zfill(4)
PlantCell(c) == Str(Zfill(AsStr(c), ZfillWidth))

\* df[col] = df[col].astype(str).str.zfill(4)
PlantColumn(df, col) ==
    SetColumn(df, col, [i \in DOMAIN df.rows |-> PlantCell(df.rows[i][col])])

\* the cleaner without .str.strip()
CleanCellNoStrip(c) ==
    LET s == AsStr(c)
    IN IF s = <<>> \/ s = tNan THEN NULL ELSE Str(s)

\* .astype(str).str.strip(), then '' and 'nan' replaced by pd.NA
CleanCell(c) ==
    LET s == Strip(AsStr(c))
    IN IF s = <<>> \/ s = tNan THEN NULL ELSE Str(s)

RECURSIVE CleanColumns(_, _)
CleanColumns(df, cols) ==
    IF cols = <<>> THEN df
    ELSE CleanColumns(
             IF IsObject(df, Head(cols))
             THEN SetColumn(df, Head(cols),
                            [i \in DOMAIN df.rows |-> CleanCell(df.rows[i][Head(cols)])])
             ELSE df,
             Tail(cols))

\* the body of the cleaning loop for one DataFrame
CleanFrame(df) == CleanColumns(df, df.columns)

\* the fill with the empty text
FillCellEmpty(c) == IF IsNull(c) THEN Str(<<>>) ELSE c

\* result.fillna('N/A')
FillCell(c) == IF IsNull(c) THEN Str(tNA) ELSE c

FillNa(df) ==
    [df EXCEPT !.rows = [i \in DOMAIN df.rows |->
                            [c \in DOMAIN df.rows[i] |-> FillCell(df.rows[i][c])]]]

\* result.isna().sum().sum()
NullCount(df) ==
    Cardinality({<<i, c>> \in (DOMAIN df.rows) \X Range(df.columns) :
                    IsNull(df.rows[i][c])})

---------------------------------------------------------------------------
\* The inputs: the spreadsheets the script finds in its working directory.
\* Materials holds at least one row.  Identifier columns (MaterialReference,
\* ManufacturerID, SupplierID) hold text, possibly blank or padded; any other
\* cell may also be empty, and Plant and ReporderPoint may hold numbers.
\* The input space is the union of five families, each varying one or two
\* sheets over every table of at most MaxRows rows and fixing the others.

MaxRows == 2

MaterialsColumns ==
    <<"MaterialReference", "ManufacturerID", "ArticleNumber", "TypeCode", "ShortText">>
ManufacturerNamesColumns == <<"ManufacturerID", "ManufacturerName">>
PlantsColumns == <<"MaterialReference", "Plant", "Disposition", "ReporderPoint">>
SuppliersColumns == <<"MaterialReference", "SupplierID", "SupplierArticleNumber">>
SupplierNamesColumns == <<"SupplierID", "SupplierName">>
StorageColumns ==
    <<"MaterialReference", "Plant", "StorageLocation", "StorageBin",
      "DeletedStorageLevel">>

tM1 == <<"M", "1">>
tM2sp == <<"M", "2", " ">>
tMF1 == <<"M", "F", "1">>
tAcme == <<"A", "c", "m", "e">>
tT1 == <<"T", "1">>
tSpT1 == <<" ", "T", "1">>
tSpNan == <<" ", "n", "a", "n">>
tS1 == <<"S", "1">>
tBolt == <<"B", "o", "l", "t">>
t7sp == <<"7", " ">>
t0007 == <<"0", "0", "0", "7">>
tX == <<"X">>

Sheet(cols, rows) == [columns |-> cols, rows |-> rows]
Tables(rowSet, lo, hi) == UNION {[1..k -> rowSet] : k \in lo..hi}

\* fixed sheets the input families below share
MaterialM1 ==
    [MaterialReference |-> Str(tM1), ManufacturerID |-> Str(tMF1),
     ArticleNumber |-> Str(tX), TypeCode |-> NULL, ShortText |-> NULL]
MaterialM2 ==
    [MaterialReference |-> Str(tM2sp), ManufacturerID |-> Str(tMF1),
     ArticleNumber |-> NULL, TypeCode |-> Str(tT1), ShortText |-> Str(tX)]
AcmeRow == [ManufacturerID |-> Str(tMF1), ManufacturerName |-> Str(tAcme)]
PlantM1 ==
    [MaterialReference |-> Str(tM1), Plant |-> Num(7), Disposition |-> Str(tX),
     ReporderPoint |-> Num(5)]
PlantM1Empty ==
    [MaterialReference |-> Str(tM1), Plant |-> NULL, Disposition |-> NULL,
     ReporderPoint |-> NULL]
PlantM2 ==
    [MaterialReference |-> Str(tM2sp), Plant |-> Str(t0007), Disposition |-> NULL,
     ReporderPoint |-> Num(5)]
SupplierM1 ==
    [MaterialReference |-> Str(tM1), SupplierID |-> Str(tS1),
     SupplierArticleNumber |-> Str(tX)]
BoltRow == [SupplierID |-> Str(tS1), SupplierName |-> Str(tBolt)]
BlankIdRow == [SupplierID |-> Str(tSpace), SupplierName |-> Str(tBolt)]
StorageM1 ==
    [MaterialReference |-> Str(tM1), Plant |-> Str(t0007), StorageLocation |-> Str(tX),
     StorageBin |-> NULL, DeletedStorageLevel |-> Str(tSpace)]

Inputs(m, mn, p, s, sn, st) ==
    [materials |-> Sheet(MaterialsColumns, m),
     manufacturer_names |-> Sheet(ManufacturerNamesColumns, mn),
     plants |-> Sheet(PlantsColumns, p),
     suppliers |-> Sheet(SuppliersColumns, s),
     supplier_names |-> Sheet(SupplierNamesColumns, sn),
     storage |-> Sheet(StorageColumns, st)]

\* Materials varies: references, TypeCodes present, blank, padded or missing
MaterialRows ==
    [MaterialReference : {Str(tM1), Str(tM2sp), Str(tSpace)},
     ManufacturerID : {Str(tMF1)},
     ArticleNumber : {Str(tX)},
     TypeCode : {NULL, Str(tSpT1), Str(tSpace), Str(tSpNan), Str(tNan)},
     ShortText : {NULL}]

MaterialsInputs(f) ==
    \E m \in Tables(MaterialRows, 1, MaxRows) :
        f = Inputs(m, <<AcmeRow>>, <<PlantM1>>, <<SupplierM1>>, <<BoltRow>>,
                   <<StorageM1>>)

\* Materials and ManufacturerNames vary; the other sheets are empty or hold
\* rows of another material
ManufacturerIdRows ==
    [MaterialReference : {Str(tM1)},
     ManufacturerID : {Str(tMF1), Str(tSpace)},
     ArticleNumber : {NULL},
     TypeCode : {NULL},
     ShortText : {Str(tX)}]
ManufacturerNameRows ==
    [ManufacturerID : {Str(tMF1), Str(tSpace)},
     ManufacturerName : {Str(tAcme), NULL}]

ManufacturerInputs(f) ==
    \E m \in Tables(ManufacturerIdRows, 1, MaxRows),
       mn \in Tables(ManufacturerNameRows, 0, MaxRows),
       o \in {<<<<>>, <<>>>>, <<<<PlantM2>>, <<BoltRow>>>>, <<<<>>, <<BlankIdRow>>>>} :
        f = Inputs(m, mn, o[1], <<>>, o[2], <<>>)

\* Plants varies: Plant as a number, as text, padded, too long, or missing
PlantRows ==
    [MaterialReference : {Str(tM1)},
     Plant : {NULL, Num(7), Num(12345), Str(t7sp), Str(t0007)},
     Disposition : {Str(tX)},
     ReporderPoint : {Num(5)}]

PlantsInputs(f) ==
    \E p \in Tables(PlantRows, 0, MaxRows), st \in {<<>>, <<StorageM1>>} :
        f = Inputs(<<MaterialM1, MaterialM2>>, <<AcmeRow>>, p, <<SupplierM1>>,
                   <<BoltRow>>, st)

\* Storage varies: its Plant and its DeletedStorageLevel
StorageRows ==
    [MaterialReference : {Str(tM1)},
     Plant : {NULL, Str(t0007)},
     StorageLocation : {Str(tX)},
     StorageBin : {NULL},
     DeletedStorageLevel : {NULL, Str(tSpace), Str(tX), Str(<<" ", " ">>)}]

StorageInputs(f) ==
    \E p \in {<<PlantM1>>, <<PlantM1, PlantM1Empty>>, <<PlantM2>>},
       st \in Tables(StorageRows, 0, MaxRows) :
        f = Inputs(<<MaterialM1, MaterialM2>>, <<AcmeRow>>, p, <<>>, <<>>, st)

\* Suppliers and SupplierNames vary
SupplierRows ==
    [MaterialReference : {Str(tM1)},
     SupplierID : {Str(tS1), Str(tSpace)},
     SupplierArticleNumber : {NULL}]
SupplierNameRows ==
    [SupplierID : {Str(tS1), Str(tSpace)},
     SupplierName : {Str(tBolt), NULL}]

SuppliersInputs(f) ==
    \E s \in Tables(SupplierRows, 0, MaxRows),
       sn \in Tables(SupplierNameRows, 0, MaxRows) :
        f = Inputs(<<MaterialM1, MaterialM2>>, <<AcmeRow>>, <<PlantM1>>, s, sn,
                   <<StorageM1>>)

InputSpace(f) ==
    \/ MaterialsInputs(f)
    \/ ManufacturerInputs(f)
    \/ PlantsInputs(f)
    \/ StorageInputs(f)
    \/ SuppliersInputs(f)

NoData == [k \in Range(DataKeys) |-> NoFrame]

NoFile == [written |-> FALSE, sheet |-> NoFrame]

Init ==
    /\ InputSpace(files)
    /\ data = NoData
    /\ result = NoFrame
    /\ pc = "load"
    /\ cleanIdx = 0
    /\ log = <<>>
    /\ xlsx = NoFile
    /\ exitStatus = -1

---------------------------------------------------------------------------
\* The script, statement by statement

\* data = {...: pd.read_excel(...)}: all six sources load
LoadOk ==
    /\ pc = "load"
    /\ data' = [k \in Range(DataKeys) |-> ReadExcel(files[k])]
    /\ log' = log \o <<Info("All files loaded successfully", 0)>>
    /\ pc' = "fix_dsl"
    /\ UNCHANGED <<files, result, cleanIdx, xlsx, exitStatus>>

\* the handler logging the error and falling through instead of exiting
LoadFailContinue ==
    /\ pc = "load"
    /\ \E kind \in {"File not found", "An unexpected error occurred"} :
          log' = log \o <<Error(kind)>>
    /\ pc' = "fix_dsl"
    /\ UNCHANGED <<files, data, result, cleanIdx, xlsx, exitStatus>>

\* one of the six pd.read_excel calls raises: except FileNotFoundError / except Exception,
\* logging.error, exit(1); data is never bound
LoadFail ==
    /\ pc = "load"
    /\ \E kind \in {"File not found", "An unexpected error occurred"} :
          log' = log \o <<Error(kind)>>
    /\ pc' = "exit"
    /\ exitStatus' = 1
    /\ UNCHANGED <<files, data, result, cleanIdx, xlsx>>

\* the replacement placed after the cleaning loop's work
CleanThenReplace ==
    /\ pc = "fix_dsl"
    /\ data' = [k \in Range(DataKeys) |->
                   IF k = "storage"
                   THEN ReplacedColumn(CleanFrame(data[k]), "DeletedStorageLevel")
                   ELSE CleanFrame(data[k])]
    /\ log' = log \o <<Info("Replaced whitespace with 'ACTIVE' in DeletedStorageLevel", 0)>>
    /\ pc' = "backfill"
    /\ UNCHANGED <<files, result, cleanIdx, xlsx, exitStatus>>

\* data['storage']['DeletedStorageLevel'].replace(' ', 'ACTIVE', inplace=True)
ReplaceDeletedStorageLevel ==
    /\ pc = "fix_dsl"
    /\ data' = [data EXCEPT !["storage"] = ReplacedColumn(@, "DeletedStorageLevel")]
    /\ log' = log \o <<Info("Replaced whitespace with 'ACTIVE' in DeletedStorageLevel", 0)>>
    /\ pc' = "backfill"
    /\ UNCHANGED <<files, result, cleanIdx, xlsx, exitStatus>>

\* data['materials']['TypeCode'] = data['materials'].apply(lambda row: ..., axis=1)
BackfillTypeCode ==
    /\ pc = "backfill"
    /\ data' = [data EXCEPT !["materials"].rows =
                   [i \in DOMAIN @ |-> BackfillRow(@[i])]]
    /\ log' = log \o <<Info("Filled null TypeCode values", 0)>>
    /\ pc' = "zfill"
    /\ UNCHANGED <<files, result, cleanIdx, xlsx, exitStatus>>

\* data[k]['Plant'] = data[k]['Plant'].astype(str).str.zfill(4), k = plants, storage
PlantToString ==
    /\ pc = "zfill"
    /\ data' = [data EXCEPT !["plants"] = PlantColumn(@, "Plant"),
                            !["storage"] = PlantColumn(@, "Plant")]
    /\ log' = log \o <<Info("Converted Plant column to string with leading zeros", 0),
                       Info("Transformations applied successfully.", 0)>>
    /\ pc' = "clean"
    /\ cleanIdx' = 1
    /\ UNCHANGED <<files, result, xlsx, exitStatus>>

\* one iteration of: for key, df in data.items()
CleanNext ==
    /\ pc = "clean"
    /\ LET key == DataKeys[cleanIdx]
       IN /\ data' = [data EXCEPT ![key] = CleanFrame(@)]
          /\ log' = log \o <<[Info("Cleaned", Len(data[key].rows)) EXCEPT !.key = key]>>
    /\ IF cleanIdx = Len(DataKeys)
       THEN pc' = "step1" /\ cleanIdx' = 0
       ELSE pc' = "clean" /\ cleanIdx' = cleanIdx + 1
    /\ UNCHANGED <<files, result, xlsx, exitStatus>>

\* Step 1: materials merge manufacturer_names on ManufacturerID, drop ManufacturerID
Step1 ==
    /\ pc = "step1"
    /\ result' = DropColumn(
                     Merge(data["materials"], data["manufacturer_names"],
                           {"ManufacturerID"}),
                     "ManufacturerID")
    /\ log' = log \o <<Info("Step 1 completed", Len(result'.rows))>>
    /\ pc' = "step2"
    /\ UNCHANGED <<files, data, cleanIdx, xlsx, exitStatus>>

\* Step 2: result merge plants on MaterialReference
Step2 ==
    /\ pc = "step2"
    /\ result' = Merge(result, data["plants"], {"MaterialReference"})
    /\ log' = log \o <<Info("Step 2 completed", Len(result'.rows))>>
    /\ pc' = "step3"
    /\ UNCHANGED <<files, data, cleanIdx, xlsx, exitStatus>>

\* Step 3: result merge suppliers on MaterialReference
Step3 ==
    /\ pc = "step3"
    /\ result' = Merge(result, data["suppliers"], {"MaterialReference"})
    /\ log' = log \o <<Info("Step 3 completed", Len(result'.rows))>>
    /\ pc' = "step4"
    /\ UNCHANGED <<files, data, cleanIdx, xlsx, exitStatus>>

\* Step 4: result merge supplier_names on SupplierID, drop SupplierID
Step4 ==
    /\ pc = "step4"
    /\ result' = DropColumn(
                     Merge(result, data["supplier_names"], {"SupplierID"}),
                     "SupplierID")
    /\ log' = log \o <<Info("Step 4 completed", Len(result'.rows))>>
    /\ pc' = "step5"
    /\ UNCHANGED <<files, data, cleanIdx, xlsx, exitStatus>>

\* Step 5: result merge storage on MaterialReference and Plant
Step5 ==
    /\ pc = "step5"
    /\ result' = Merge(result, data["storage"], {"MaterialReference", "Plant"})
    /\ log' = log \o <<Info("Step 5 completed", Len(result'.rows)),
                       Info("Aggregation completed successfully", Len(result'.rows))>>
    /\ pc' = "format"
    /\ UNCHANGED <<files, data, cleanIdx, xlsx, exitStatus>>

\* result = result[[...13 columns...]]
FormatColumns ==
    /\ pc = "format"
    /\ result' = Project(result, OutputColumns)
    /\ log' = log \o <<Info("Columns formatted", Len(OutputColumns))>>
    /\ pc' = "fillna"
    /\ UNCHANGED <<files, data, cleanIdx, xlsx, exitStatus>>

\* result = result.fillna('N/A'); remaining_nulls = result.isna().sum().sum()
FillNulls ==
    /\ pc = "fillna"
    /\ result' = FillNa(result)
    /\ log' = log \o <<Info("Remaining null values after filling", NullCount(result'))>>
    /\ pc' = "export"
    /\ UNCHANGED <<files, data, cleanIdx, xlsx, exitStatus>>

\* result.to_excel(writer, sheet_name='result-template', index=False), then the
\* script runs off its end
ExportOk ==
    /\ pc = "export"
    /\ xlsx' = [written |-> TRUE, sheet |-> result]
    /\ log' = log \o <<Info("Successfully exported", Len(result.rows))>>
    /\ pc' = "done"
    /\ exitStatus' = 0
    /\ UNCHANGED <<files, data, result, cleanIdx>>

\* the writer raises: except Exception, logging.error, exit(1)
ExportFail ==
    /\ pc = "export"
    /\ log' = log \o <<Error("Error exporting to Excel")>>
    /\ pc' = "exit"
    /\ exitStatus' = 1
    /\ UNCHANGED <<files, data, result, cleanIdx, xlsx>>

Next ==
    \/ LoadOk
    \/ LoadFail
    \/ ReplaceDeletedStorageLevel
    \/ BackfillTypeCode
    \/ PlantToString
    \/ CleanNext
    \/ Step1
    \/ Step2
    \/ Step3
    \/ Step4
    \/ Step5
    \/ FormatColumns
    \/ FillNulls
    \/ ExportOk
    \/ ExportFail

Spec == Init /\ [][Next]_vars

---------------------------------------------------------------------------
\* Vocabulary of the properties

Out == xlsx.sheet.rows
Loaded(k) == ReadExcel(files[k]).rows

\* a text that trims to nothing or to "nan"
Blank(s) == Strip(s) = <<>> \/ Strip(s) = tNan

\* how a text-or-missing input cell is expected to show in the export
Shown(c) == IF IsNull(c) \/ Blank(c.s) THEN Str(tNA) ELSE Str(Strip(c.s))

\* exported row r shows Materials row i in the columns Materials supplies
FromMaterial(r, i) ==
    /\ r["MaterialReference"] = Shown(Loaded("materials")[i]["MaterialReference"])
    /\ r["ArticleNumber"] = Shown(Loaded("materials")[i]["ArticleNumber"])
    /\ r["ShortText"] = Shown(Loaded("materials")[i]["ShortText"])

StepRows(k) == log[11 + k].n

---------------------------------------------------------------------------
\* one join: the row count does not fall, and stays the same exactly when no
\* left row has two matches
JoinKeepsRows(left, right, on) ==
    /\ Len(result'.rows) >= Len(left.rows)
    /\ Len(result'.rows) = Len(left.rows) <=>
           \A i \in DOMAIN left.rows : Len(Matches(left.rows[i], right, on)) <= 1

\* every join step keeps the rows of its left side
C1_EachJoin ==
    /\ pc = "step1" =>
           JoinKeepsRows(data["materials"], data["manufacturer_names"], {"ManufacturerID"})
    /\ pc = "step2" => JoinKeepsRows(result, data["plants"], {"MaterialReference"})
    /\ pc = "step3" => JoinKeepsRows(result, data["suppliers"], {"MaterialReference"})
    /\ pc = "step4" => JoinKeepsRows(result, data["supplier_names"], {"SupplierID"})
    /\ pc = "step5" =>
           JoinKeepsRows(result, data["storage"], {"MaterialReference", "Plant"})

\* the logged row counts rise from the Materials count to the exported count
C1_Exported ==
    xlsx.written =>
        /\ Len(Out) >= Len(files["materials"].rows)
        /\ StepRows(1) >= Len(files["materials"].rows)
        /\ \A k \in 1..4 : StepRows(k + 1) >= StepRows(k)
        /\ Len(Out) = StepRows(5)
        /\ Len(Out) = Len(files["materials"].rows) =>
               \A k \in 1..5 : StepRows(k) = Len(files["materials"].rows)

\* C1: no left-join lowers the row count, so the export has at least as many
\* rows as Materials; and a join leaves the count unchanged exactly when every
\* left row matches at most one right row, so the export has as many rows as
\* Materials only when no join fanned out.
C1_RowCount == [](C1_Exported) /\ [][C1_EachJoin]_vars

\* an export with more rows than Materials: some join fanned out
C1_Witness == xlsx.written /\ Len(Out) > Len(files["materials"].rows)

\* C2 (as claimed): every exported Plant other than "N/A" has exactly 4 characters.
C2_PlantFourChars ==
    xlsx.written =>
        \A i \in DOMAIN Out :
            Out[i]["Plant"] # Str(tNA) => Len(Out[i]["Plant"].s) = ZfillWidth

\* exported row r has the join key of Storage row j
StorageKey(r, j) ==
    /\ r["MaterialReference"] = FillCell(data["storage"].rows[j]["MaterialReference"])
    /\ r["Plant"] = FillCell(data["storage"].rows[j]["Plant"])

WasSpace(j) == files["storage"].rows[j]["DeletedStorageLevel"] = Str(tSpace)

ShowsStorage(r, j) ==
    /\ StorageKey(r, j)
    /\ r["StorageLocation"] = FillCell(data["storage"].rows[j]["StorageLocation"])
    /\ r["StorageBin"] = FillCell(data["storage"].rows[j]["StorageBin"])
    /\ r["DeletedStorageLevel"] =
           IF WasSpace(j) THEN Str(tACTIVE)
           ELSE FillCell(data["storage"].rows[j]["DeletedStorageLevel"])

StorageColumnsOnly == {"StorageLocation", "StorageBin", "DeletedStorageLevel"}

\* C3: a Storage row whose DeletedStorageLevel is a single space shows as
\* "ACTIVE" in every exported row that carries it: each exported row whose key
\* (MaterialReference, Plant) is in Storage shows the fields of one Storage row
\* with that key, a single space showing as "ACTIVE"; and each left row joined
\* to such a Storage row has an exported row showing it.
C3_SpaceIsActive ==
    xlsx.written =>
        /\ \A i \in DOMAIN Out :
               (\E j \in DOMAIN files["storage"].rows : StorageKey(Out[i], j)) =>
                   \E j \in DOMAIN files["storage"].rows : ShowsStorage(Out[i], j)
        /\ \A i \in DOMAIN Out, j \in DOMAIN files["storage"].rows :
               WasSpace(j) /\ StorageKey(Out[i], j) =>
                   \E i2 \in DOMAIN Out :
                       /\ ShowsStorage(Out[i2], j)
                       /\ Out[i2]["DeletedStorageLevel"] = Str(tACTIVE)
                       /\ \A c \in Range(OutputColumns) \ StorageColumnsOnly :
                              Out[i2][c] = Out[i][c]

\* an exported row joined to a Storage row whose DeletedStorageLevel was a space
C3_Witness ==
    /\ xlsx.written
    /\ \E i \in DOMAIN Out, j \in DOMAIN files["storage"].rows :
           WasSpace(j) /\ StorageKey(Out[i], j)

\* the TypeCode of Materials row i is missing at load
TypeCodeMissing(i) == IsNull(Loaded("materials")[i]["TypeCode"])

InBackfillScope(i) ==
    TypeCodeMissing(i) => Len(Loaded("materials")[i]["MaterialReference"].s) >= 2

ClaimedTypeCode(i) ==
    IF TypeCodeMissing(i)
    THEN Str(tTCPrefix \o LastTwo(Loaded("materials")[i]["MaterialReference"].s))
    ELSE Loaded("materials")[i]["TypeCode"]

TypeCodesAre(expected) ==
    /\ \A i \in DOMAIN files["materials"].rows :
           InBackfillScope(i) =>
               \E k \in DOMAIN Out :
                   FromMaterial(Out[k], i) /\ Out[k]["TypeCode"] = expected[i]
    /\ \A k \in DOMAIN Out :
           \E i \in DOMAIN files["materials"].rows :
               /\ FromMaterial(Out[k], i)
               /\ InBackfillScope(i) => Out[k]["TypeCode"] = expected[i]

\* C4 (as claimed): a Materials row with a missing TypeCode and a reference of
\* two or more characters is exported with "TC00000000" + the last two
\* characters of its reference; any other row keeps its own TypeCode.
C4_TypeCodeAsClaimed ==
    xlsx.written =>
        TypeCodesAre([i \in DOMAIN files["materials"].rows |-> ClaimedTypeCode(i)])

TrimmedTypeCode(i) == Shown(ClaimedTypeCode(i))

\* C4 (amended): the exported TypeCode is that value as the cleaner leaves it:
\* trimmed, and "N/A" when nothing or "nan" is left.
C4_TypeCodeTrimmed ==
    xlsx.written =>
        TypeCodesAre([i \in DOMAIN files["materials"].rows |-> TrimmedTypeCode(i)])

\* an export of a backfilled row whose reference ends in whitespace
C4_Witness ==
    /\ xlsx.written
    /\ \E i \in DOMAIN files["materials"].rows, k \in DOMAIN Out :
           /\ TypeCodeMissing(i)
           /\ Loaded("materials")[i]["MaterialReference"] = Str(tM2sp)
           /\ FromMaterial(Out[k], i)
           /\ Out[k]["TypeCode"] = TrimmedTypeCode(i)

tTCclaimed == <<"T", "C", "0", "0", "0", "0", "0", "0", "0", "0", "1">>

DerivedColumns ==
    {"Plant", "Disposition", "ReporderPoint", "SupplierName", "SupplierArticleNumber",
     "StorageLocation", "StorageBin", "DeletedStorageLevel"}

\* the end-to-end scenario's input
C5_Scenario ==
    /\ Len(files["materials"].rows) = 1
    /\ files["materials"].rows[1]["MaterialReference"] = Str(tM1)
    /\ files["materials"].rows[1]["ManufacturerID"] = Str(tMF1)
    /\ files["materials"].rows[1]["TypeCode"] = NULL
    /\ files["manufacturer_names"].rows = <<AcmeRow>>
    /\ \A k \in {"plants", "suppliers", "storage"} :
           \A i \in DOMAIN files[k].rows :
               Strip(files[k].rows[i]["MaterialReference"].s) # tM1

C5_Export(typeCode) ==
    /\ Len(Out) = 1
    /\ Out[1]["MaterialReference"] = Str(tM1)
    /\ Out[1]["ManufacturerName"] = Str(tAcme)
    /\ Out[1]["TypeCode"] = Str(typeCode)
    /\ \A c \in DerivedColumns : Out[1][c] = Str(tNA)

\* C5 (as claimed): Materials is the one row ("M1", "MF1", no TypeCode),
\* ManufacturerNames maps "MF1" to "Acme", and no Plants, Suppliers or Storage
\* row is for "M1": the export is one row with ManufacturerName "Acme",
\* TypeCode "TC000000001" and "N/A" in every Plant, Supplier and Storage column.
C5_EndToEndAsClaimed == xlsx.written /\ C5_Scenario => C5_Export(tTCclaimed)

NoBlankSupplierId ==
    \A i \in DOMAIN files["supplier_names"].rows :
        ~Blank(files["supplier_names"].rows[i]["SupplierID"].s)

\* C5 (amended): in that scenario, when SupplierNames has no row with a blank
\* SupplierID, the export is that one row with TypeCode "TC00000000M1".
C5_EndToEnd ==
    xlsx.written /\ C5_Scenario /\ NoBlankSupplierId => C5_Export(tTCPrefix \o tM1)

\* the scenario has run to the export
C5_Witness == xlsx.written /\ C5_Scenario /\ NoBlankSupplierId /\ Len(Out) = 1

\* a null, or a text standing for one
NullForm(c) ==
    \/ IsNull(c)
    \/ IsStr(c) /\ (Strip(c.s) = <<>> \/ c.s = tNan \/ c.s = Zfill(tNan, ZfillWidth))

\* C6 (as claimed): no exported cell is null, empty, whitespace only, "nan" or
\* a zero-padded "nan".
C6_OnlyNASentinel ==
    xlsx.written =>
        \A i \in DOMAIN Out : \A c \in Range(OutputColumns) : ~NullForm(Out[i][c])

\* C7 (as claimed): no exported MaterialReference is "N/A"; each is the
\* (trimmed) reference of a Materials row.
C7_ReferenceNeverNA ==
    xlsx.written =>
        \A k \in DOMAIN Out :
            /\ Out[k]["MaterialReference"] # Str(tNA)
            /\ \E i \in DOMAIN files["materials"].rows :
                   Out[k]["MaterialReference"] =
                       Str(Strip(Loaded("materials")[i]["MaterialReference"].s))

ShownReference(i) ==
    IF Blank(Loaded("materials")[i]["MaterialReference"].s)
    THEN Str(tNA)
    ELSE Str(Strip(Loaded("materials")[i]["MaterialReference"].s))

\* C7 (amended): a Materials row whose reference holds more than whitespace
\* (and is not "nan" once trimmed) is exported with that reference, trimmed,
\* never "N/A"; a row whose reference is blank is exported with "N/A".
C7_ReferenceUnlessBlank ==
    xlsx.written =>
        /\ \A i \in DOMAIN files["materials"].rows :
               \E k \in DOMAIN Out : Out[k]["MaterialReference"] = ShownReference(i)
        /\ \A k \in DOMAIN Out :
               \E i \in DOMAIN files["materials"].rows :
                   Out[k]["MaterialReference"] = ShownReference(i)

\* an export holding both a blank reference and a padded one
C7_Witness ==
    /\ xlsx.written
    /\ \E i, j \in DOMAIN files["materials"].rows :
           /\ files["materials"].rows[i]["MaterialReference"] = Str(tSpace)
           /\ files["materials"].rows[j]["MaterialReference"] = Str(tM2sp)
    /\ \E k \in DOMAIN Out : Out[k]["MaterialReference"] = Str(tNA)

\* the first log record is an error: the loader's handler ran
LoadFailed == log # <<>> /\ log[1].level = "ERROR"

\* what a failed load leaves behind, and what a written result.xlsx implies
C8_State ==
    /\ LoadFailed =>
           /\ pc = "exit"
           /\ exitStatus = 1
           /\ Len(log) = 1
           /\ data = NoData
           /\ result = NoFrame
           /\ ~xlsx.written
    /\ xlsx.written =>
           /\ log[1] = Info("All files loaded successfully", 0)
           /\ \A k \in Range(DataKeys) : data[k].columns = files[k].columns

\* the loader either binds all six tables or logs one error and exits with
\* status 1; nothing runs after an exit
C8_Step ==
    /\ pc # "exit"
    /\ pc = "load" =>
           \/ /\ pc' = "fix_dsl"
              /\ \A k \in Range(DataKeys) : data'[k].columns = files[k].columns
           \/ /\ pc' = "exit"
              /\ exitStatus' = 1
              /\ Len(log') = 1 /\ log'[1].level = "ERROR"
              /\ UNCHANGED <<data, result, xlsx>>

\* C8: a failed load logs the error, ends the run with a non-zero status and
\* nothing else: no table is bound, no stage logs, nothing is joined or
\* written, and no step follows the exit; a written result.xlsx implies a
\* successful load of all six sources.
C8_LoadFailureIsFatal == [](C8_State) /\ [][C8_Step]_vars

\* a run ended by a failed load
C8_Witness == LoadFailed /\ pc = "exit"

\* the records of a run that reaches its end, in order
StageOrder ==
    <<<<"All files loaded successfully", "">>,
      <<"Replaced whitespace with 'ACTIVE' in DeletedStorageLevel", "">>,
      <<"Filled null TypeCode values", "">>,
      <<"Converted Plant column to string with leading zeros", "">>,
      <<"Transformations applied successfully.", "">>,
      <<"Cleaned", "materials">>,
      <<"Cleaned", "plants">>,
      <<"Cleaned", "storage">>,
      <<"Cleaned", "suppliers">>,
      <<"Cleaned", "supplier_names">>,
      <<"Cleaned", "manufacturer_names">>,
      <<"Step 1 completed", "">>,
      <<"Step 2 completed", "">>,
      <<"Step 3 completed", "">>,
      <<"Step 4 completed", "">>,
      <<"Step 5 completed", "">>,
      <<"Aggregation completed successfully", "">>,
      <<"Columns formatted", "">>,
      <<"Remaining null values after filling", "">>,
      <<"Successfully exported", "">>>>

Stages(l) == [i \in DOMAIN l |-> <<l[i].msg, l[i].key>>]

Logged(position) ==
    /\ Len(log) = position
    /\ Stages(log) = SubSeq(StageOrder, 1, position)
    /\ \A i \in DOMAIN log : log[i].level = "INFO"

FixedColumns == {"DeletedStorageLevel", "TypeCode", "Plant"}

UntouchedByCleaner ==
    \A k \in Range(DataKeys) :
        /\ data[k].columns = files[k].columns
        /\ DOMAIN data[k].rows = DOMAIN files[k].rows
        /\ \A i \in DOMAIN data[k].rows :
               \A c \in Range(data[k].columns) \ FixedColumns :
                   data[k].rows[i][c] = Loaded(k)[i][c]

Has(df, c) == c \in Range(df.columns)

\* C9: the stages run in one fixed order: load; the three field fixes, all
\* before the cleaner touches any table; the cleaner on every table before the
\* first join; joins 1 to 5, ManufacturerID dropped with join 1 and SupplierID
\* with join 4; column order, N/A fill; export last.
C9_StageOrder ==
    /\ pc = "load" => Logged(0)
    /\ pc = "fix_dsl" => Logged(1) /\ UntouchedByCleaner
    /\ pc = "backfill" => Logged(2) /\ UntouchedByCleaner
    /\ pc = "zfill" => Logged(3) /\ UntouchedByCleaner
    /\ pc = "clean" => Logged(4 + cleanIdx) /\ result = NoFrame
    /\ pc = "step1" => Logged(11) /\ result = NoFrame
    /\ pc = "step2" =>
           Logged(12) /\ ~Has(result, "ManufacturerID") /\ Has(result, "ManufacturerName")
              /\ ~Has(result, "Plant")
    /\ pc = "step3" => Logged(13) /\ Has(result, "Plant") /\ ~Has(result, "SupplierID")
    /\ pc = "step4" => Logged(14) /\ Has(result, "SupplierID")
    /\ pc = "step5" =>
           Logged(15) /\ ~Has(result, "SupplierID") /\ Has(result, "SupplierName")
              /\ ~Has(result, "StorageBin")
    /\ pc = "format" => Logged(17) /\ Has(result, "StorageBin")
    /\ pc = "fillna" => Logged(18) /\ result.columns = OutputColumns
    /\ pc = "export" => Logged(19)
    /\ pc = "done" => Logged(20)
    /\ xlsx.written <=> pc = "done"
    /\ xlsx.written => xlsx.sheet = result

\* a run that reached the export through every stage
C9_Witness == pc = "done" /\ xlsx.written /\ Len(log) = Len(StageOrder)

TypeCodeBlank(i) ==
    /\ IsStr(Loaded("materials")[i]["TypeCode"])
    /\ Blank(Loaded("materials")[i]["TypeCode"].s)

=============================================================================
